---- MODULE Spec2Model ----
(***************************************************************************)
(* Model of the streaming answer pipeline of src/GLP_app.py (class         *)
(* GLP1Bot): stream_pplx_response, format_citations_and_sources,           *)
(* get_related_questions and process_streaming_query.                      *)
(*                                                                         *)
(* Text is modelled as a sequence of one-character strings, so that        *)
(* strip, split, replace and the substring test are computed the way       *)
(* Python computes them.                                                   *)
(***************************************************************************)
EXTENDS Integers, Sequences, FiniteSets, TLC

\* ------------------------------------------------------------------------
\* Bounds of the model
\* ------------------------------------------------------------------------
MaxFrames == 3

MaxSrcLines == 3

MaxBodyParts == 2

MaxReplyLines == 5

MaxQueryWords == 2

\* ------------------------------------------------------------------------
\* Python string primitives on sequences of characters
\* ------------------------------------------------------------------------
\* the whitespace characters of the model's alphabet (str.strip() removes these)
WS == {" ", "\n"}

SEPARATOR == <<"S", "o", "u", "r", "c", "e", "s", ":">>

DISCLAIMER == <<"\n", "\n", "Disclaimer">>

Drop(s, n) == SubSeq(s, n + 1, Len(s))

Take(s, n) == SubSeq(s, 1, n)

StartsWith(s, p) == Len(p) <= Len(s) /\ Take(s, Len(p)) = p

\* s.lstrip()
RECURSIVE LStrip(_)
LStrip(s) == IF s # <<>> /\ Head(s) \in WS THEN LStrip(Tail(s)) ELSE s

\* s.rstrip()
RECURSIVE RStrip(_)
RStrip(s) == IF s # <<>> /\ s[Len(s)] \in WS THEN RStrip(Take(s, Len(s) - 1)) ELSE s

\* s.strip()
Strip(s) == RStrip(LStrip(s))

\* s.find(p) + 1: position of the first occurrence of p in s, 0 when there is none
Find(s, p) ==
    LET hits == {i \in 1..(Len(s) - Len(p) + 1) : SubSeq(s, i, i + Len(p) - 1) = p}
    IN  IF hits = {} THEN 0 ELSE CHOOSE i \in hits : \A j \in hits : i <= j

\* p in s
Contains(s, p) == Find(s, p) # 0

\* s.split(p, 1), for a p that occurs in s: the text before and after the first p
SplitFirst(s, p) ==
    LET i == Find(s, p)
    IN  <<Take(s, i - 1), Drop(s, i + Len(p) - 1)>>

\* s.split(p): always at least one piece
RECURSIVE Split(_, _)
Split(s, p) ==
    IF Contains(s, p)
    THEN <<SplitFirst(s, p)[1]>> \o Split(SplitFirst(s, p)[2], p)
    ELSE <<s>>

\* s.replace(old, new): left to right, non-overlapping
RECURSIVE Replace(_, _, _)
Replace(s, old, new) ==
    IF s = <<>> THEN <<>>
    ELSE IF StartsWith(s, old) THEN new \o Replace(Drop(s, Len(old)), old, new)
    ELSE <<Head(s)>> \o Replace(Tail(s), old, new)

\* str(n) for the ordinals of the model
DigitChar == <<"0", "1", "2", "3", "4", "5", "6", "7", "8", "9">>

NumStr(n) ==
    IF n < 10 THEN <<DigitChar[n + 1]>>
    ELSE <<DigitChar[(n \div 10) + 1], DigitChar[(n % 10) + 1]>>

RECURSIVE Concat(_)
Concat(ss) == IF ss = <<>> THEN <<>> ELSE Head(ss) \o Concat(Tail(ss))

RECURSIVE Join(_, _)
Join(ss, sep) ==
    IF ss = <<>> THEN <<>>
    ELSE IF Len(ss) = 1 THEN ss[1]
    ELSE ss[1] \o sep \o Join(Tail(ss), sep)

SeqsUpTo(S, n) == UNION {[1..k -> S] : k \in 0..n}

\* ------------------------------------------------------------------------
\* format_citations_and_sources
\* ------------------------------------------------------------------------
\* the loop over enumerate(lines, 1): idx is the position of the line in lines
RECURSIVE ParseSources(_, _)
ParseSources(lines, idx) ==
    IF lines = <<>> THEN <<>>
    ELSE IF Contains(Head(lines), <<":">>)
    THEN <<[number |-> idx,
            title  |-> Strip(SplitFirst(Head(lines), <<":">>)[1]),
            url    |-> Strip(SplitFirst(Head(lines), <<":">>)[2])]>>
         \o ParseSources(Tail(lines), idx + 1)
    ELSE ParseSources(Tail(lines), idx + 1)

\* f'[{number}]'
Citation(n) == <<"[">> \o NumStr(n) \o <<"]">>

\* f'<a href="#{number}" class="citation-link">{citation}</a>'
ClickableCitation(n) ==
    <<"<a href=#">> \o NumStr(n) \o <<" class=citation-link>">> \o Citation(n) \o <<"</a>">>

\* the loop replacing the citation of each source in turn
RECURSIVE LinkCitations(_, _)
LinkCitations(content, srcs) ==
    IF srcs = <<>> THEN content
    ELSE LinkCitations(Replace(content, Citation(Head(srcs).number),
                               ClickableCitation(Head(srcs).number)),
                       Tail(srcs))

\* returns <<formatted_content, sources>>; sources_html renders sources one card each
format_citations_and_sources(content, sources_text) ==
    LET srcs == ParseSources(Split(Strip(sources_text), <<"\n">>), 1)
    IN  <<LinkCitations(content, srcs), srcs>>

\* ------------------------------------------------------------------------
\* get_related_questions: the parsing of the reply
\* ------------------------------------------------------------------------
StripAll(ss) == [i \in 1..Len(ss) |-> Strip(ss[i])]

NonEmpty(q) == q # <<>>

\* variant: the slice [:3] taken before the blank lines are dropped
ParseQuestions_sliceFirst(content) ==
    LET questions == Split(Strip(content), <<"\n">>)
        firstq    == Take(questions, IF Len(questions) < 3 THEN Len(questions) ELSE 3)
    IN  SelectSeq(StripAll(firstq), NonEmpty)

\* [q.strip() for q in content.strip().split('\n') if q.strip()][:3]
ParseQuestions(content) ==
    LET questions == Split(Strip(content), <<"\n">>)
        kept      == SelectSeq(StripAll(questions), NonEmpty)
    IN  Take(kept, IF Len(kept) < 3 THEN Len(kept) ELSE 3)

\* ------------------------------------------------------------------------
\* stream_pplx_response: one delta into the accumulators
\* ------------------------------------------------------------------------
EmptyAcc == [accumulated_content |-> <<>>, found_sources |-> FALSE, sources_text |-> <<>>]

feed(content, acc) ==
    IF Contains(content, SEPARATOR)
    THEN [accumulated_content |-> acc.accumulated_content \o SplitFirst(content, SEPARATOR)[1],
          found_sources       |-> TRUE,
          sources_text        |-> acc.sources_text \o SplitFirst(content, SEPARATOR)[2]]
    ELSE IF acc.found_sources
    THEN [acc EXCEPT !.sources_text = @ \o content]
    ELSE [acc EXCEPT !.accumulated_content = @ \o content]

\* ------------------------------------------------------------------------
\* categorize_query
\* ------------------------------------------------------------------------
UpperLetters ==
    <<"A", "B", "C", "D", "E", "F", "G", "H", "I", "J", "K", "L", "M", "N", "O", "P", "Q", "R", "S", "T", "U", "V", "W", "X", "Y", "Z">>

LowerLetters ==
    <<"a", "b", "c", "d", "e", "f", "g", "h", "i", "j", "k", "l", "m", "n", "o", "p", "q", "r", "s", "t", "u", "v", "w", "x", "y", "z">>

\* str.lower() on one character
LowerChar(c) ==
    IF \E i \in 1..26 : UpperLetters[i] = c
    THEN LowerLetters[CHOOSE i \in 1..26 : UpperLetters[i] = c]
    ELSE c

\* query.lower()
Lower(q) == [i \in 1..Len(q) |-> LowerChar(q[i])]

\* the dict of keyword lists, in its insertion order
categories ==
    <<
       [name |-> "dosage",
        keywords |-> {<<"d", "o", "s", "e">>,
                      <<"d", "o", "s", "a", "g", "e">>,
                      <<"h", "o", "w", " ", "t", "o", " ", "t", "a", "k", "e">>,
                      <<"w", "h", "e", "n", " ", "t", "o", " ", "t", "a", "k", "e">>,
                      <<"i", "n", "j", "e", "c", "t", "i", "o", "n">>,
                      <<"a", "d", "m", "i", "n", "i", "s", "t", "r", "a", "t", "i", "o", "n">>}],
       [name |-> "side_effects",
        keywords |-> {<<"s", "i", "d", "e", " ", "e", "f", "f", "e", "c", "t">>,
                      <<"a", "d", "v", "e", "r", "s", "e">>,
                      <<"r", "e", "a", "c", "t", "i", "o", "n">>,
                      <<"p", "r", "o", "b", "l", "e", "m">>,
                      <<"i", "s", "s", "u", "e", "s">>,
                      <<"s", "y", "m", "p", "t", "o", "m", "s">>}],
       [name |-> "benefits",
        keywords |-> {<<"b", "e", "n", "e", "f", "i", "t">>,
                      <<"a", "d", "v", "a", "n", "t", "a", "g", "e">>,
                      <<"h", "e", "l", "p">>,
                      <<"w", "o", "r", "k">>,
                      <<"e", "f", "f", "e", "c", "t">>,
                      <<"w", "e", "i", "g", "h", "t">>,
                      <<"g", "l", "u", "c", "o", "s", "e">>}],
       [name |-> "storage",
        keywords |-> {<<"s", "t", "o", "r", "e">>,
                      <<"s", "t", "o", "r", "a", "g", "e">>,
                      <<"k", "e", "e", "p">>,
                      <<"r", "e", "f", "r", "i", "g", "e", "r", "a", "t", "e">>,
                      <<"t", "e", "m", "p", "e", "r", "a", "t", "u", "r", "e">>}],
       [name |-> "lifestyle",
        keywords |-> {<<"d", "i", "e", "t">>,
                      <<"e", "x", "e", "r", "c", "i", "s", "e">>,
                      <<"l", "i", "f", "e", "s", "t", "y", "l", "e">>,
                      <<"f", "o", "o", "d">>,
                      <<"a", "l", "c", "o", "h", "o", "l">>,
                      <<"e", "a", "t", "i", "n", "g">>}],
       [name |-> "interactions",
        keywords |-> {<<"i", "n", "t", "e", "r", "a", "c", "t", "i", "o", "n">>,
                      <<"d", "r", "u", "g">>,
                      <<"m", "e", "d", "i", "c", "a", "t", "i", "o", "n">>,
                      <<"c", "o", "m", "b", "i", "n", "e">>,
                      <<"m", "i", "x", "i", "n", "g">>}],
       [name |-> "cost",
        keywords |-> {<<"c", "o", "s", "t">>,
                      <<"p", "r", "i", "c", "e">>,
                      <<"i", "n", "s", "u", "r", "a", "n", "c", "e">>,
                      <<"c", "o", "v", "e", "r", "a", "g", "e">>,
                      <<"a", "f", "f", "o", "r", "d">>}]
    >>

\* any(keyword in query_lower for keyword in keywords)
AnyKeyword(keywords, query_lower) == \E k \in keywords : Contains(query_lower, k)

\* the loop over categories.items(), from the i-th category on
RECURSIVE FirstCategory(_, _)
FirstCategory(query_lower, i) ==
    IF i > Len(categories) THEN "general"
    ELSE IF AnyKeyword(categories[i].keywords, query_lower) THEN categories[i].name
    ELSE FirstCategory(query_lower, i + 1)

\* variant: the keywords are matched against the query as typed
categorize_query_noLower(query) == FirstCategory(query, 1)

categorize_query(query) == FirstCategory(Lower(query), 1)

\* ------------------------------------------------------------------------
\* Inputs of the model
\* ------------------------------------------------------------------------
\* user queries: empty, whitespace-only, and with text
Queries == {<<>>, <<" ">>, <<" ", "\n">>, <<"q">>, <<" ", "q">>}

\* contents of the "content" field of a delta
Deltas ==
    { <<>>,
      <<"a", " ">>,
      <<" ">>,
      <<"S", "o", "u", "r">>,
      <<"c", "e", "s", ":">>,
      <<"b">> \o SEPARATOR \o <<"c", "\n">> }

\* lines delivered by response.iter_lines(), by what the loop body finds in them:
\*   empty      b''                                   (keep-alive)
\*   other      a line that does not start with 'data: '
\*   done       data: [DONE]
\*   badjson    data: <text that is not JSON>
\*   nochoices  data: {}            or  data: {"choices": []}
\*   nofinish   data: {"choices": [{"delta": {...}}]}
\*   finish     data: {"choices": [{"finish_reason": "stop", "delta": {"content": c}}]}
\*   nodelta    data: {"choices": [{"finish_reason": null}]}
\*   nocontent  data: {"choices": [{"finish_reason": null, "delta": {}}]}
\*   content    data: {"choices": [{"finish_reason": null, "delta": {"content": c}}]}
PlainKinds == {"empty", "other", "done", "badjson", "nochoices", "nofinish",
               "finish", "nodelta", "nocontent"}

Frames ==
    [kind : PlainKinds, content : {<<>>}]
    \cup [kind : {"content"}, content : Deltas]
    \cup [kind : {"finish"}, content : {<<"a", " ">>}]

\* variant: data: [DONE] does not leave the loop
FrameOutcome_doneSkips(f) ==
    CASE f.kind \in {"empty", "other", "done", "badjson", "nocontent"} -> "skip"
      [] f.kind \in {"nochoices", "nofinish", "nodelta"} -> "raise"
      [] f.kind = "finish"  -> "break"
      [] f.kind = "content" -> IF f.content = <<>> THEN "skip" ELSE "delta"

\* variant: no except json.JSONDecodeError around the loop body
FrameOutcome_noJsonExcept(f) ==
    CASE f.kind \in {"empty", "other", "nocontent"} -> "skip"
      [] f.kind \in {"badjson", "nochoices", "nofinish", "nodelta"} -> "raise"
      [] f.kind \in {"done", "finish"} -> "break"
      [] f.kind = "content" -> IF f.content = <<>> THEN "skip" ELSE "delta"

\* what the body of the for loop does with one line
FrameOutcome(f) ==
    CASE f.kind = "empty"     -> "skip"
      [] f.kind = "other"     -> "skip"
      [] f.kind = "done"      -> "break"
      [] f.kind = "badjson"   -> "skip"
      [] f.kind = "nochoices" -> "raise"
      [] f.kind = "nofinish"  -> "raise"
      [] f.kind = "finish"    -> "break"
      [] f.kind = "nodelta"   -> "raise"
      [] f.kind = "nocontent" -> "skip"
      [] f.kind = "content"   -> IF f.content = <<>> THEN "skip" ELSE "delta"

\* variant: not user_query
IsBlank_noStrip(q) == q = <<>>

\* not user_query.strip()
IsBlank(q) == Strip(q) = <<>>

\* ------------------------------------------------------------------------
\* State
\* ------------------------------------------------------------------------
VARIABLES
    pc,                   \* position of process_streaming_query
    user_query,
    is_related_question,
    query_category,
    frames,               \* the lines read from the response so far
    accumulated_content,
    found_sources,
    sources_text,
    events,               \* what stream_pplx_response has yielded so far
    full_response,
    formatted_content,
    sources,
    reply,                \* content of the follow-up reply
    followup_questions,
    result,               \* return value of process_streaming_query
    streamCalls,          \* streaming completion requests issued
    followupCalls,        \* follow-up completion requests issued
    streamState,          \* "none", "inflight", "finished"
    followupState         \* "none", "inflight", "ok", "failed"

vars == <<pc, user_query, is_related_question, query_category, frames, accumulated_content,
          found_sources, sources_text, events, full_response, formatted_content,
          sources, reply, followup_questions, result, streamCalls, followupCalls,
          streamState, followupState>>

NoResult == [status |-> "none"]

InitRest ==
    /\ query_category = "unset"
    /\ frames = <<>>
    /\ accumulated_content = <<>>
    /\ found_sources = FALSE
    /\ sources_text = <<>>
    /\ events = <<>>
    /\ full_response = <<>>
    /\ formatted_content = <<>>
    /\ sources = <<>>
    /\ reply = <<>>
    /\ followup_questions = <<>>
    /\ result = NoResult
    /\ streamCalls = 0
    /\ followupCalls = 0
    /\ streamState = "none"
    /\ followupState = "none"

Init ==
    /\ pc = "start"
    /\ user_query \in Queries
    /\ is_related_question \in BOOLEAN
    /\ InitRest

\* ------------------------------------------------------------------------
\* process_streaming_query driving stream_pplx_response
\* ------------------------------------------------------------------------
\* the empty-query check
RejectQuery ==
    /\ pc = "start"
    /\ IsBlank(user_query)
    /\ result' = [status |-> "error", message |-> "Please enter a valid question."]
    /\ pc' = "returned"
    /\ UNCHANGED <<user_query, is_related_question, query_category, frames, accumulated_content,
                   found_sources, sources_text, events, full_response,
                   formatted_content, sources, reply, followup_questions,
                   streamCalls, followupCalls, streamState, followupState>>

\* the first next() of the generator: requests.post(..., stream=True)
PostStream ==
    /\ pc = "start"
    /\ ~IsBlank(user_query)
    /\ pc' = "posted"
    /\ streamCalls' = streamCalls + 1
    /\ streamState' = "inflight"
    /\ query_category' = categorize_query(user_query)
    /\ UNCHANGED <<user_query, is_related_question, frames, accumulated_content,
                   found_sources, sources_text, events, full_response,
                   formatted_content, sources, reply, followup_questions, result,
                   followupCalls, followupState>>

\* the generator yields an error event and the caller returns it
YieldError(cause) ==
    /\ events' = Append(events, [type |-> "error", message |-> cause])
    /\ result' = [status |-> "error", message |-> cause]
    /\ pc' = "returned"
    /\ streamState' = "finished"
    /\ UNCHANGED <<user_query, is_related_question, query_category, accumulated_content,
                   found_sources, sources_text, full_response, formatted_content,
                   sources, reply, followup_questions, streamCalls, followupCalls,
                   followupState>>

\* requests.post raises, or raise_for_status() raises on a non-2xx status
PostFails(cause) ==
    /\ pc = "posted"
    /\ YieldError(cause)
    /\ UNCHANGED frames

PostOk ==
    /\ pc = "posted"
    /\ pc' = "reading"
    /\ accumulated_content' = <<>>
    /\ found_sources' = FALSE
    /\ sources_text' = <<>>
    /\ UNCHANGED <<user_query, is_related_question, query_category, frames, events, full_response,
                   formatted_content, sources, reply, followup_questions, result,
                   streamCalls, followupCalls, streamState, followupState>>

\* variant: the follow-up step is not guarded
CallsFollowup_always == TRUE

\* if not is_related_question
CallsFollowup == ~is_related_question

\* the loop is left: the generator yields the complete event; the caller links
\* the citations and, for a top-level query, issues the follow-up request
YieldComplete ==
    LET ev == [type    |-> "complete",
               content |-> Strip(accumulated_content),
               sources |-> Strip(sources_text)]
        fc == format_citations_and_sources(ev.content, ev.sources)
    IN  /\ events' = Append(events, ev)
        /\ streamState' = "finished"
        /\ full_response' = ev.content
        /\ formatted_content' = fc[1]
        /\ sources' = fc[2]
        /\ IF CallsFollowup
           THEN /\ pc' = "followup"
                /\ followupCalls' = followupCalls + 1
                /\ followupState' = "inflight"
           ELSE /\ pc' = "resume"
                /\ UNCHANGED <<followupCalls, followupState>>
        /\ UNCHANGED <<user_query, is_related_question, query_category, accumulated_content,
                       found_sources, sources_text, reply, followup_questions,
                       result, streamCalls>>

CanRead == pc = "reading" /\ Len(frames) < MaxFrames

\* a line the loop body passes over
SkipLine(f) ==
    /\ CanRead
    /\ FrameOutcome(f) = "skip"
    /\ frames' = Append(frames, f)
    /\ UNCHANGED <<pc, user_query, is_related_question, query_category, accumulated_content,
                   found_sources, sources_text, events, full_response,
                   formatted_content, sources, reply, followup_questions, result,
                   streamCalls, followupCalls, streamState, followupState>>

\* a delta with content: the accumulators are updated, a content event is
\* yielded and the caller shows its accumulated text
DeltaLine(f) ==
    /\ CanRead
    /\ FrameOutcome(f) = "delta"
    /\ frames' = Append(frames, f)
    /\ LET a == feed(f.content, [accumulated_content |-> accumulated_content,
                                 found_sources       |-> found_sources,
                                 sources_text        |-> sources_text])
       IN  /\ accumulated_content' = a.accumulated_content
           /\ found_sources' = a.found_sources
           /\ sources_text' = a.sources_text
           /\ events' = Append(events, [type        |-> "content",
                                        data        |-> f.content,
                                        accumulated |-> a.accumulated_content])
           /\ full_response' = a.accumulated_content
    /\ UNCHANGED <<pc, user_query, is_related_question, query_category, formatted_content, sources,
                   reply, followup_questions, result, streamCalls, followupCalls,
                   streamState, followupState>>

\* data: [DONE], or a chunk with a finish_reason: break
TerminatorLine(f) ==
    /\ CanRead
    /\ FrameOutcome(f) = "break"
    /\ frames' = Append(frames, f)
    /\ YieldComplete

\* a chunk without an expected field: KeyError / IndexError reaches except Exception
BadFrame(f) ==
    /\ CanRead
    /\ FrameOutcome(f) = "raise"
    /\ frames' = Append(frames, f)
    /\ YieldError("frame")

\* iter_lines() is exhausted: the transport closed the stream
StreamEnds ==
    /\ pc = "reading"
    /\ UNCHANGED frames
    /\ YieldComplete

\* iter_lines() raises: the transport failed while reading
ReadFails ==
    /\ pc = "reading"
    /\ UNCHANGED frames
    /\ YieldError("transport")

\* ------------------------------------------------------------------------
\* get_related_questions
\* ------------------------------------------------------------------------
FollowupReplies ==
    { <<>>,
      <<"x">>,
      <<"x", "\n", "\n", " ", "y", " ", "\n", "z", "\n", "w">> }

FollowupOk(r) ==
    /\ pc = "followup"
    /\ reply' = r
    /\ followup_questions' = ParseQuestions(r)
    /\ followupState' = "ok"
    /\ pc' = "resume"
    /\ UNCHANGED <<user_query, is_related_question, query_category, frames, accumulated_content,
                   found_sources, sources_text, events, full_response,
                   formatted_content, sources, result, streamCalls, followupCalls,
                   streamState>>

\* variant: get_related_questions lets the exception reach the caller's except
FollowupFails_escalates(cause) ==
    /\ pc = "followup"
    /\ followupState' = "failed"
    /\ result' = [status |-> "error", message |-> cause]
    /\ pc' = "returned"
    /\ UNCHANGED <<user_query, is_related_question, query_category, frames, accumulated_content,
                   found_sources, sources_text, events, full_response,
                   formatted_content, sources, reply, followup_questions,
                   streamCalls, followupCalls, streamState>>

\* requests.post raises, raise_for_status() raises, or the reply lacks
\* choices[0].message.content: except Exception returns []
FollowupFails(cause) ==
    /\ pc = "followup"
    /\ followup_questions' = <<>>
    /\ followupState' = "failed"
    /\ pc' = "resume"
    /\ UNCHANGED <<user_query, is_related_question, query_category, frames, accumulated_content,
                   found_sources, sources_text, events, full_response,
                   formatted_content, sources, reply, result, streamCalls,
                   followupCalls, streamState>>

\* the generator is exhausted after the complete event: return the success result
Return ==
    /\ pc = "resume"
    /\ result' = [status         |-> "success",
                  query_category |-> query_category,
                  original_query |-> user_query,
                  response       |-> formatted_content \o DISCLAIMER]
    /\ pc' = "returned"
    /\ UNCHANGED <<user_query, is_related_question, query_category, frames, accumulated_content,
                   found_sources, sources_text, events, full_response,
                   formatted_content, sources, reply, followup_questions,
                   streamCalls, followupCalls, streamState, followupState>>

PostCauses == {"connection", "http_status"}

FollowupCauses == {"connection", "http_status", "malformed_reply"}

Next ==
    \/ RejectQuery
    \/ PostStream
    \/ \E c \in PostCauses : PostFails(c)
    \/ PostOk
    \/ \E f \in Frames : SkipLine(f)
    \/ \E f \in Frames : DeltaLine(f)
    \/ \E f \in Frames : TerminatorLine(f)
    \/ \E f \in Frames : BadFrame(f)
    \/ StreamEnds
    \/ ReadFails
    \/ \E r \in FollowupReplies : FollowupOk(r)
    \/ \E c \in FollowupCauses : FollowupFails(c)
    \/ Return

Spec == Init /\ [][Next]_vars

\* ------------------------------------------------------------------------
\* format_citations_and_sources applied to bounded inputs
\* ------------------------------------------------------------------------
BodyParts ==
    { <<"[", "1", "]">>, <<"[", "2", "]">>, <<"[", "3", "]">>, <<"[", "7", "]">>,
      <<"x">>, <<"[">>, <<"1", "]">> }

Bodies == {Concat(ps) : ps \in SeqsUpTo(BodyParts, MaxBodyParts)}

SrcLines ==
    { <<>>,
      <<"j">>,
      <<"A", ":", "u">>,
      <<" ", "B", " ", ":", " ", "v", ":", "w">> }

SourceTexts == {Join(ls, <<"\n">>) : ls \in SeqsUpTo(SrcLines, MaxSrcLines)}

InitLink ==
    /\ pc = "link"
    /\ user_query = <<"q">>
    /\ is_related_question = FALSE
    /\ query_category = "unset"
    /\ full_response \in Bodies
    /\ sources_text \in SourceTexts
    /\ frames = <<>>
    /\ accumulated_content = <<>>
    /\ found_sources = FALSE
    /\ events = <<>>
    /\ formatted_content = <<>>
    /\ sources = <<>>
    /\ reply = <<>>
    /\ followup_questions = <<>>
    /\ result = NoResult
    /\ streamCalls = 0
    /\ followupCalls = 0
    /\ streamState = "none"
    /\ followupState = "none"

LinkStep ==
    /\ pc = "link"
    /\ LET fc == format_citations_and_sources(full_response, sources_text)
       IN  /\ formatted_content' = fc[1]
           /\ sources' = fc[2]
    /\ pc' = "link_done"
    /\ UNCHANGED <<user_query, is_related_question, query_category, frames, accumulated_content,
                   found_sources, sources_text, events, full_response, reply,
                   followup_questions, result, streamCalls, followupCalls,
                   streamState, followupState>>

NextLink == LinkStep

SpecLink == InitLink /\ [][NextLink]_vars

\* ------------------------------------------------------------------------
\* the reply parsing of get_related_questions applied to bounded inputs
\* ------------------------------------------------------------------------
ReplyLines == {<<>>, <<" ">>, <<"x">>, <<" ", "y", " ">>, <<"z">>}

Replies == {Join(ls, <<"\n">>) : ls \in SeqsUpTo(ReplyLines, MaxReplyLines)}

InitFollow ==
    /\ pc = "parse"
    /\ user_query = <<"q">>
    /\ is_related_question = FALSE
    /\ query_category = "unset"
    /\ reply \in Replies
    /\ frames = <<>>
    /\ accumulated_content = <<>>
    /\ found_sources = FALSE
    /\ sources_text = <<>>
    /\ events = <<>>
    /\ full_response = <<>>
    /\ formatted_content = <<>>
    /\ sources = <<>>
    /\ followup_questions = <<>>
    /\ result = NoResult
    /\ streamCalls = 0
    /\ followupCalls = 0
    /\ streamState = "none"
    /\ followupState = "none"

ParseStep ==
    /\ pc = "parse"
    /\ followup_questions' = ParseQuestions(reply)
    /\ pc' = "parse_done"
    /\ UNCHANGED <<user_query, is_related_question, query_category, frames, accumulated_content,
                   found_sources, sources_text, events, full_response,
                   formatted_content, sources, reply, result, streamCalls,
                   followupCalls, streamState, followupState>>

NextFollow == ParseStep

SpecFollow == InitFollow /\ [][NextFollow]_vars

\* ------------------------------------------------------------------------
\* categorize_query applied to bounded inputs
\* ------------------------------------------------------------------------
QueryWords ==
    { <<"d", "o">>,
      <<"s", "e">>,
      <<"D", "O", "S", "E">>,
      <<"s", "i", "d", "e", " ">>,
      <<"e", "f", "f", "e", "c", "t">>,
      <<"E", "f", "f", "e", "c", "t">>,
      <<"r", "e", "s", "t", "o", "r", "e">>,
      <<"F", "o", "o", "d">>,
      <<"d", "r", "u", "g">>,
      <<"C", "O", "S", "T">>,
      <<"p", "r", "i", "c", "e">>,
      <<"o", "z", "e", "m", "p", "i", "c">>,
      <<" ">> }

CatQueries == {Concat(ws) : ws \in SeqsUpTo(QueryWords, MaxQueryWords)}

InitCat ==
    /\ pc = "categorize"
    /\ user_query \in CatQueries
    /\ is_related_question = FALSE
    /\ InitRest

CatStep ==
    /\ pc = "categorize"
    /\ query_category' = categorize_query(user_query)
    /\ pc' = "categorize_done"
    /\ UNCHANGED <<user_query, is_related_question, frames, accumulated_content,
                   found_sources, sources_text, events, full_response,
                   formatted_content, sources, reply, followup_questions, result,
                   streamCalls, followupCalls, streamState, followupState>>

NextCat == CatStep

SpecCat == InitCat /\ [][NextCat]_vars

\* ------------------------------------------------------------------------
\* Vocabulary of the properties
\* ------------------------------------------------------------------------
Last(s) == s[Len(s)]

OnlyWhitespace(q) == \A i \in 1..Len(q) : q[i] \in WS

IsTerminatorFrame(f) == f.kind \in {"done", "finish"}

MissingFieldKinds == {"nochoices", "nofinish", "nodelta"}

\* contents of the frames that carry a non-empty content delta, in order, up to
\* the first terminator frame
RECURSIVE ContentDeltas(_)
ContentDeltas(fs) ==
    IF fs = <<>> \/ IsTerminatorFrame(Head(fs)) THEN <<>>
    ELSE IF Head(fs).kind = "content" /\ Head(fs).content # <<>>
    THEN <<Head(fs).content>> \o ContentDeltas(Tail(fs))
    ELSE ContentDeltas(Tail(fs))

\* the accumulators after a sequence of deltas
RECURSIVE FeedAll(_, _)
FeedAll(ds, acc) == IF ds = <<>> THEN acc ELSE FeedAll(Tail(ds), feed(Head(ds), acc))

ContentEvents == SelectSeq(events, LAMBDA e : e.type = "content")

EventData(es) == [i \in 1..Len(es) |-> es[i].data]

EndedWith(t) == events # <<>> /\ Last(events).type = t

\* ------------------------------------------------------------------------
\* C1
\* ------------------------------------------------------------------------
\* C1: chunk-boundary invariance. However the answer text is cut into content
\* deltas, the complete event carries the body and sources that the same text
\* gives when it arrives as one single delta.
ChunkBoundaryInvariance ==
    EndedWith("complete") =>
        LET whole == FeedAll(<<Concat(ContentDeltas(frames))>>, EmptyAcc)
        IN  /\ Last(events).content = Strip(whole.accumulated_content)
            /\ Last(events).sources = Strip(whole.sources_text)

\* ------------------------------------------------------------------------
\* C2
\* ------------------------------------------------------------------------
\* C2: a query that is empty or only whitespace gets an error result, and
\* neither the streaming request nor the follow-up request is ever issued.
EmptyQueryNoNetwork ==
    OnlyWhitespace(user_query) =>
        /\ streamCalls = 0
        /\ followupCalls = 0
        /\ streamState = "none"
        /\ followupState = "none"
        /\ events = <<>>
        /\ pc \in {"start", "returned"}
        /\ pc = "returned" => result.status = "error"

EmptyQueryRejected ==
    /\ user_query = <<" ", "\n">>
    /\ pc = "returned"
    /\ result.status = "error"

\* ------------------------------------------------------------------------
\* C3
\* ------------------------------------------------------------------------
\* C3: the events are content events followed by exactly one terminal event
\* (complete or error), nothing follows the terminal event, and no content
\* event is emitted for a frame after a [DONE] frame or a frame with a
\* finish_reason.
EventOrder ==
    /\ \A i \in 1..(Len(events) - 1) : events[i].type = "content"
    /\ \A i \in 1..Len(events) : events[i].type \in {"content", "complete", "error"}
    /\ streamState = "finished" => (EndedWith("complete") \/ EndedWith("error"))
    /\ streamState = "inflight" => \A i \in 1..Len(events) : events[i].type = "content"
    /\ streamState = "none" => events = <<>>
    /\ \A i \in 1..Len(frames) :
          IsTerminatorFrame(frames[i]) => (i = Len(frames) /\ EndedWith("complete"))
    /\ EventData(ContentEvents) = ContentDeltas(frames)

ContentThenTerminator ==
    /\ Len(events) = 3
    /\ EndedWith("complete")
    /\ IsTerminatorFrame(Last(frames))
    /\ Last(frames).content # <<>>
    /\ pc = "returned"

ContentThenError ==
    /\ Len(events) = 2
    /\ EndedWith("error")
    /\ pc = "returned"

\* ------------------------------------------------------------------------
\* C4
\* ------------------------------------------------------------------------
\* C4: a data frame whose payload is not JSON is skipped: it gives no content
\* event and leaves body and sources as they are, the content frames around it
\* are all processed, and if nothing else goes wrong the stream ends with a
\* complete event.
BadJsonSkipped ==
    (\E i \in 1..Len(frames) : frames[i].kind = "badjson") =>
        LET acc == FeedAll(ContentDeltas(frames), EmptyAcc)
        IN  /\ EventData(ContentEvents) = ContentDeltas(frames)
            /\ accumulated_content = acc.accumulated_content
            /\ sources_text = acc.sources_text
            /\ found_sources = acc.found_sources
            /\ ( /\ streamState = "finished"
                 /\ \A i \in 1..Len(frames) : frames[i].kind \notin MissingFieldKinds
                 /\ ~(EndedWith("error") /\ Last(events).message = "transport") )
               => /\ EndedWith("complete")
                  /\ Last(events).content = Strip(acc.accumulated_content)
                  /\ Last(events).sources = Strip(acc.sources_text)

BadJsonThenContent ==
    /\ Len(frames) = 3
    /\ frames[1].kind = "badjson"
    /\ frames[2].kind = "content"
    /\ frames[2].content # <<>>
    /\ frames[3].kind = "done"
    /\ Len(events) = 2
    /\ EndedWith("complete")

\* ------------------------------------------------------------------------
\* C5
\* ------------------------------------------------------------------------
\* C5: a data frame that is valid JSON but lacks an expected field is skipped,
\* so the stream never ends with an error event caused by such a frame.
MissingFieldRecovered ==
    (\E i \in 1..Len(frames) : frames[i].kind \in MissingFieldKinds) =>
        ~(EndedWith("error") /\ Last(events).message = "frame")

\* ------------------------------------------------------------------------
\* C6
\* ------------------------------------------------------------------------
\* the lines of the sources text as format_citations_and_sources sees them
SourceLines == Split(Strip(sources_text), <<"\n">>)

HasColon(line) == \E i \in 1..Len(line) : line[i] = ":"

KeptLines == SelectSeq(SourceLines, HasColon)

\* C6: the sources carry the ordinals 1..N without gaps, N being the number of
\* lines with a colon, each kept line numbered by its position among the kept
\* lines.
DenseOrdinals ==
    pc = "link_done" =>
        /\ Len(sources) = Len(KeptLines)
        /\ \A i \in 1..Len(sources) : sources[i].number = i

\* ------------------------------------------------------------------------
\* C7
\* ------------------------------------------------------------------------
\* one pass over the body: a marker [n] with n in nums becomes its link, every
\* other character is copied
RECURSIVE RewriteMarkers(_, _)
RewriteMarkers(body, nums) ==
    IF body = <<>> THEN <<>>
    ELSE IF \E n \in nums : StartsWith(body, Citation(n))
    THEN LET n == CHOOSE m \in nums : StartsWith(body, Citation(m))
         IN  ClickableCitation(n) \o RewriteMarkers(Drop(body, Len(Citation(n))), nums)
    ELSE <<Head(body)>> \o RewriteMarkers(Tail(body), nums)

\* C7: a marker [n] is rewritten only when n is the ordinal of a parsed source
\* (one of 1..N for N sources); every other marker and all other text is
\* unchanged, and an empty sources text gives no sources and the body unchanged.
MarkersRewrittenByOrdinal ==
    pc = "link_done" =>
        /\ formatted_content = RewriteMarkers(full_response, 1..Len(sources))
        /\ sources_text = <<>> => (sources = <<>> /\ formatted_content = full_response)

\* the rewriting taken by itself: the markers rewritten are those carrying the
\* number field of a source
RewriteFollowsNumbers ==
    pc = "link_done" =>
        /\ formatted_content =
              RewriteMarkers(full_response, {sources[i].number : i \in 1..Len(sources)})
        /\ sources_text = <<>> => (sources = <<>> /\ formatted_content = full_response)

\* ------------------------------------------------------------------------
\* C8
\* ------------------------------------------------------------------------
ReplyLinesOf == Split(reply, <<"\n">>)

NonBlankIdx == {i \in 1..Len(ReplyLinesOf) : ~OnlyWhitespace(ReplyLinesOf[i])}

\* the k-th non-blank line of the reply
NthNonBlank(k) ==
    ReplyLinesOf[CHOOSE i \in NonBlankIdx : Cardinality({j \in NonBlankIdx : j <= i}) = k]

\* C8: the questions returned are the first 3 (or fewer) non-blank lines of the
\* reply, trimmed, in their order; blank lines do not count toward the 3.
FirstThreeNonBlank ==
    pc = "parse_done" =>
        /\ Len(followup_questions) <= 3
        /\ Len(followup_questions) =
              (IF Cardinality(NonBlankIdx) < 3 THEN Cardinality(NonBlankIdx) ELSE 3)
        /\ \A k \in 1..Len(followup_questions) :
              followup_questions[k] = Strip(NthNonBlank(k))

FiveLinesTwoBlank ==
    /\ pc = "parse_done"
    /\ Len(ReplyLinesOf) = 5
    /\ Cardinality(NonBlankIdx) = 3
    /\ NonBlankIdx # {1, 2, 3}
    /\ Len(followup_questions) = 3
    /\ \E k \in 1..3 : followup_questions[k] # NthNonBlank(k)

\* ------------------------------------------------------------------------
\* C9
\* ------------------------------------------------------------------------
\* C9: a failed follow-up call gives an empty follow-up list and no error:
\* whenever the stream ended with a complete event the query returns success,
\* with the response built from the complete event alone.
FollowupFailureAbsorbed ==
    /\ followupState = "failed" =>
          /\ followup_questions = <<>>
          /\ pc \in {"resume", "returned"}
          /\ result.status \in {"none", "success"}
    /\ (pc = "returned" /\ EndedWith("complete")) =>
          /\ result.status = "success"
          /\ result.response =
                format_citations_and_sources(Last(events).content,
                                             Last(events).sources)[1] \o DISCLAIMER

FollowupFailedSuccess ==
    /\ followupState = "failed"
    /\ pc = "returned"
    /\ result.status = "success"
    /\ EndedWith("complete")

\* ------------------------------------------------------------------------
\* C10
\* ------------------------------------------------------------------------
\* C10: the follow-up request is issued at most once per query, only after the
\* stream ended with a complete event, never for a follow-up-triggered query,
\* never for an empty query and never after an error event; the two calls are
\* never in flight together.
FollowupDiscipline ==
    /\ followupCalls <= 1
    /\ streamCalls <= 1
    /\ (followupCalls > 0 \/ followupState # "none") =>
          /\ ~is_related_question
          /\ ~OnlyWhitespace(user_query)
          /\ EndedWith("complete")
          /\ streamState = "finished"
    /\ ~(streamState = "inflight" /\ followupState = "inflight")
    /\ EndedWith("error") => followupCalls = 0

FollowupInFlight ==
    /\ followupState = "inflight"
    /\ followupCalls = 1
    /\ streamState = "finished"

RelatedQueryDone ==
    /\ is_related_question
    /\ pc = "returned"
    /\ result.status = "success"

\* ------------------------------------------------------------------------
\* C11
\* ------------------------------------------------------------------------
CategoryOrder ==
    <<"dosage", "side_effects", "benefits", "storage", "lifestyle", "interactions", "cost">>

\* the query with every letter in lower case / in upper case
LowerCased(q) ==
    [i \in 1..Len(q) |->
        IF \E k \in 1..26 : UpperLetters[k] = q[i]
        THEN LowerLetters[CHOOSE k \in 1..26 : UpperLetters[k] = q[i]]
        ELSE q[i]]

UpperCased(q) ==
    [i \in 1..Len(q) |->
        IF \E k \in 1..26 : LowerLetters[k] = q[i]
        THEN UpperLetters[CHOOSE k \in 1..26 : LowerLetters[k] = q[i]]
        ELSE q[i]]

\* some keyword of the i-th category occurs in q at some position
Occurs(i, q) ==
    \E k \in categories[i].keywords :
        \E j \in 1..Len(q) :
            /\ j + Len(k) - 1 <= Len(q)
            /\ \A m \in 1..Len(k) : q[j + m - 1] = k[m]

MatchingCategories(q) == {i \in 1..Len(CategoryOrder) : Occurs(i, LowerCased(q))}

\* C11: categorize_query returns one of the eight categories: the first one, in
\* the declared order, with a keyword occurring in the lower-cased query, and
\* general when there is none; the letter case of the query does not matter.
FirstMatchingCategory ==
    pc = "categorize_done" =>
        /\ query_category \in {CategoryOrder[i] : i \in 1..Len(CategoryOrder)} \cup {"general"}
        /\ \A i \in 1..Len(CategoryOrder) : categories[i].name = CategoryOrder[i]
        /\ MatchingCategories(user_query) = {} => query_category = "general"
        /\ MatchingCategories(user_query) # {} =>
              /\ query_category # "general"
              /\ \E i \in MatchingCategories(user_query) :
                    /\ query_category = CategoryOrder[i]
                    /\ \A j \in MatchingCategories(user_query) : i <= j
        /\ categorize_query(UpperCased(user_query)) = query_category
        /\ categorize_query(LowerCased(user_query)) = query_category

\* an upper-case keyword that spans two words, with a later category matching too
MixedCaseFirstWins ==
    /\ pc = "categorize_done"
    /\ user_query = <<"D", "O", "S", "E", "C", "O", "S", "T">>
    /\ query_category = "dosage"

SideEffectBeforeEffect ==
    /\ pc = "categorize_done"
    /\ user_query = <<"s", "i", "d", "e", " ", "E", "f", "f", "e", "c", "t">>
    /\ query_category = "side_effects"

\* ------------------------------------------------------------------------
\* C12
\* ------------------------------------------------------------------------
\* C12: once a delta with the separator has been processed the sources flag
\* stays true, the body is never changed again, and every later delta is
\* appended whole to the sources text, also when it contains the separator again.
SourcesOnlyAfterSeparator ==
    [][found_sources =>
          /\ found_sources'
          /\ accumulated_content' = accumulated_content
          /\ (Len(frames') > Len(frames) /\ Last(frames').kind = "content")
                => sources_text' = sources_text \o Last(frames').content]_vars

\* the part that holds: the flag never reverts and the sources text only grows
FlagNeverReverts ==
    [][found_sources =>
          /\ found_sources'
          /\ Len(sources_text') >= Len(sources_text)
          /\ SubSeq(sources_text', 1, Len(sources_text)) = sources_text]_vars

\* ------------------------------------------------------------------------
\* C13
\* ------------------------------------------------------------------------
\* C13: on normal completion the final body is exactly the text routed to the
\* body by the deltas, no character added or removed, trailing whitespace
\* included.
FinalBodyExact ==
    EndedWith("complete") =>
        LET routed == FeedAll(ContentDeltas(frames), EmptyAcc).accumulated_content
        IN  /\ Last(events).content = routed
            /\ full_response = routed

\* what the code does give: the routed text without its outer whitespace
FinalBodyStripped ==
    EndedWith("complete") =>
        LET routed == FeedAll(ContentDeltas(frames), EmptyAcc).accumulated_content
        IN  /\ Last(events).content = Strip(routed)
            /\ full_response = Strip(routed)

\* ------------------------------------------------------------------------
\* C14
\* ------------------------------------------------------------------------
\* the body of a delta sequence: everything before the first separator
RECURSIVE BodyBeforeSeparator(_)
BodyBeforeSeparator(ds) ==
    IF ds = <<>> THEN <<>>
    ELSE IF \E i \in 1..(Len(Head(ds)) - Len(SEPARATOR) + 1) :
               SubSeq(Head(ds), i, i + Len(SEPARATOR) - 1) = SEPARATOR
    THEN LET i == CHOOSE k \in 1..(Len(Head(ds)) - Len(SEPARATOR) + 1) :
                     /\ SubSeq(Head(ds), k, k + Len(SEPARATOR) - 1) = SEPARATOR
                     /\ \A j \in 1..(k - 1) :
                           SubSeq(Head(ds), j, j + Len(SEPARATOR) - 1) # SEPARATOR
         IN  SubSeq(Head(ds), 1, i - 1)
    ELSE Head(ds) \o BodyBeforeSeparator(Tail(ds))

IsPrefix(s, t) == Len(s) <= Len(t) /\ SubSeq(t, 1, Len(s)) = s

\* C14: each delta with non-empty content gives exactly one progress event, in
\* delta order; the event carries the body accumulated so far, which extends
\* the body of the event before it and holds no text that arrived after the
\* separator.
ProgressCarriesBodyOnly ==
    /\ EventData(ContentEvents) = ContentDeltas(frames)
    /\ \A i \in 1..Len(ContentEvents) :
          /\ ContentEvents[i].accumulated =
                BodyBeforeSeparator(SubSeq(ContentDeltas(frames), 1, i))
          /\ i > 1 => IsPrefix(ContentEvents[i - 1].accumulated,
                               ContentEvents[i].accumulated)

\* the part that holds: one event per non-empty delta, in order, each body
\* extending the one before
ProgressInOrderAndGrowing ==
    /\ EventData(ContentEvents) = ContentDeltas(frames)
    /\ \A i \in 2..Len(ContentEvents) :
          IsPrefix(ContentEvents[i - 1].accumulated, ContentEvents[i].accumulated)

====
